---- MODULE Spec2Model ----
(***************************************************************************)
(* Streaming record-to-table transform of columnar_genotype_stores.        *)
(*                                                                         *)
(* Two drivers are modelled:                                               *)
(*   "vcf"    : src/tables/vcf_to_parquet.py      tables()  (real calls)   *)
(*   "gnomad" : src/tables/parquet_from_gnomad.py tables()  (synthetic)    *)
(* One loop iteration of a driver is one step.  A parquet file is the      *)
(* sequence of batches written through its ParquetWriter; a file that was  *)
(* never opened does not exist.                                            *)
(***************************************************************************)
EXTENDS Integers, Sequences, FiniteSets, TLC

VARIABLES
    mode,         \* which driver runs
    samples,      \* ordered sample names of the run
    chunksize,    \* --chunk
    stream,       \* the input records consumed so far, in order
    pc,           \* "start" | "loop" | "done" | "failed"
    sample_map,   \* vcf_to_parquet.tables: sample name -> id
    callsets,     \* <prefix>_callsets.parquet : <<>> (absent) or <<rows>>
    sampletable,  \* <prefix>_samples.parquet  : <<>> (absent) or <<rows>>
    data_tables,  \* row buffers of the three chunked tables
    writers,      \* table name -> has a ParquetWriter been opened
    files,        \* table name -> batches written through the writer
    count,        \* parquet_from_gnomad.tables: emitted-variant counter
    nrec,         \* enumerate() index of the next record
    emitted,      \* history: every row ever appended to a buffer
    ref,          \* a second run of the same driver on the same input, chunk size 1
    gt_in,        \* a raw genotype handed to gt_string
    gt_out        \* <<>>, or <<the string gt_string returned for gt_in>>

vars == <<mode, samples, chunksize, stream, pc, sample_map, callsets, sampletable,
          data_tables, writers, files, count, nrec, emitted, ref, gt_in, gt_out>>

----------------------------------------------------------------------------
(* Bounds of the model *)
MaxRecords == 3
MaxSamples == 3
MaxChunk == 3
(* samples x records: the genotype matrix of the input has at most MaxCells cells *)
MaxCells == 4
(* raw genotypes handed to gt_string alone: up to MaxPloidy allele indices,
   each -1 (missing) .. MaxAllele *)
MaxPloidy == 2
MaxAllele == 1

Modes == {"vcf", "gnomad"}
TableNames == <<"variants", "annotations", "gts">>
Tables == {"variants", "annotations", "gts"}

(* Genotype type codes of cyvcf2, as in the comment of vcf_to_parquet.tables *)
HOM_REF == 0
HET == 1
UNKNOWN == 2
HOM_ALT == 3

DATASET == "dataset1"

----------------------------------------------------------------------------
(* Small helpers *)
Range(s) == {s[i] : i \in DOMAIN s}

RECURSIVE Flatten(_)
Flatten(batches) ==
    IF batches = <<>> THEN <<>> ELSE Head(batches) \o Flatten(Tail(batches))

(* list(range(n)) *)
PyRange(n) == [i \in 1..n |-> i - 1]

(* n * [x] *)
Repeat(n, x) == [i \in 1..n |-> x]

----------------------------------------------------------------------------
(* Inputs *)

(* vcf_reader.samples: distinct names, in header order *)
VcfSamples(n) == [i \in 1..n |-> "NA" \o ToString(i)]

(* __main__ of parquet_from_gnomad: f"{dataset}_{i:05}" for i in range(nsamples) *)
GnomadSamples(n) == [i \in 1..n |-> DATASET \o "_0000" \o ToString(i - 1)]

(* One sample's call as cyvcf2 hands it over: gt_types code and the raw
   genotype, a list of allele indices followed by the phase flag *)
Calls == {
    [gt_type |-> HOM_REF, genotype |-> <<0, 0, FALSE>>],
    [gt_type |-> HET,     genotype |-> <<0, 1, FALSE>>],
    [gt_type |-> UNKNOWN, genotype |-> <<-1, -1, FALSE>>],
    [gt_type |-> HOM_ALT, genotype |-> <<1, 1, FALSE>>],
    [gt_type |-> HET,     genotype |-> <<1, 0, TRUE>>] }

RawGenotypes ==
    { alleles \o <<phased>> :
        alleles \in UNION {[1..k -> -1..MaxAllele] : k \in 1..MaxPloidy},
        phased \in BOOLEAN }

(* An INFO value as cyvcf2 hands it over: a Python object of the type the
   header declares for the key.  A String key gives a str, a Flag key gives
   True. *)
PyStr(s) == [type |-> "str", repr |-> s]
PyTrue == [type |-> "bool", repr |-> "True"]

(* bool(v) of Python *)
Truthy(v) == IF v.type = "str" THEN v.repr # "" ELSE v.repr = "True"

(* The sites of the input: one with two alternates and a gene symbol, one
   with an empty gene symbol, one whose INFO has no geneSymbol key, one
   whose header declares geneSymbol as a Flag *)
VcfSites == {
    [CHROM |-> "1", POS |-> 12345, REF |-> "A", ALT |-> <<"T", "G">>,
     INFO |-> [geneSymbol |-> PyStr("BRCA1")]],
    [CHROM |-> "1", POS |-> 12400, REF |-> "C", ALT |-> <<"T">>,
     INFO |-> [geneSymbol |-> PyStr("")]],
    [CHROM |-> "2", POS |-> 300, REF |-> "G", ALT |-> <<"A">>,
     INFO |-> <<>>],
    [CHROM |-> "2", POS |-> 450, REF |-> "T", ALT |-> <<"C">>,
     INFO |-> [geneSymbol |-> PyTrue]] }

VcfRecords(n) ==
    { [CHROM |-> site.CHROM, POS |-> site.POS, REF |-> site.REF, ALT |-> site.ALT,
       INFO |-> site.INFO,
       gt_types |-> [i \in 1..n |-> c[i].gt_type],
       genotypes |-> [i \in 1..n |-> c[i].genotype]] :
      site \in VcfSites, c \in [1..n -> Calls] }

(* Allele frequencies are multiples of 1/AFDenom; AF may be missing,
   and may lie outside [0,1] *)
AFDenom == 2
AFInfos == {<<>>} \cup {[AF |-> q] : q \in -1..(AFDenom + 1)}

(* The sites of the synthetic driver's input: one whose INFO carries a gene
   symbol next to AF, one whose INFO does not *)
GnomadSites == {
    [CHROM |-> "1", POS |-> 12345, REF |-> "A", ALT |-> <<"T", "G">>,
     INFO |-> [geneSymbol |-> PyStr("BRCA1")]],
    [CHROM |-> "2", POS |-> 300, REF |-> "G", ALT |-> <<"A">>,
     INFO |-> <<>>] }

GnomadRecords ==
    { [CHROM |-> site.CHROM, POS |-> site.POS, REF |-> site.REF, ALT |-> site.ALT,
       INFO |-> info @@ site.INFO, gts |-> <<>>] :
      site \in GnomadSites, info \in AFInfos }

----------------------------------------------------------------------------
(* Schema registry and buffers *)

empty_tables == [t \in Tables |-> <<>>]

no_writers == [t \in Tables |-> FALSE]

no_files == [t \in Tables |-> <<>>]

(* get_schemas(): does a row fit the table's declared column types?
   genotype is a string in vcf_to_parquet and a uint8 code in
   parquet_from_gnomad; the gts ids are unsigned there. *)
INT32_MAX == 2147483647
Int32 == (-INT32_MAX - 1)..INT32_MAX

get_schemas(m, t, row) ==
    CASE t = "variants" ->
            /\ row.vId \in Int
            /\ row.pos \in Int32
       [] t = "annotations" ->
            /\ row.vId \in Int
            /\ row.geneSymbol.type = "str"
       [] t = "gts" ->
            IF m = "vcf"
            THEN /\ row.vId \in Int
                 /\ row.callsetId \in Int32
            ELSE /\ row.vId \in Nat
                 /\ row.callsetId \in Nat
                 /\ row.genotype \in 0..255

----------------------------------------------------------------------------
(* Identifier assigner *)

sample_to_sampleId_from_one(smp) ==
    [name \in Range(smp) |->
        CHOOSE i \in 1..Len(smp) : smp[i] = name]

(* {sample: i for i, sample in enumerate(samples)}: a later duplicate wins *)
sample_to_sampleId(smp) ==
    [name \in Range(smp) |->
        CHOOSE i \in 0..(Len(smp) - 1) :
            /\ smp[i + 1] = name
            /\ \A j \in (i + 1)..(Len(smp) - 1) : smp[j + 1] # name]

write_callset_table_from_one(smp, dataset) ==
    [i \in 1..Len(smp) |-> [callsetId |-> i, sampleId |-> i,
                            call_type |-> "germline", dataset |-> dataset,
                            consent |-> TRUE]]

(* The columns random.choices() fills (ethnicity, birth_sex) are left out:
   they are independent draws that no other table reads. *)
write_callset_table(smp, dataset) ==
    LET n == Len(smp)
        callsetId == PyRange(n)
        sampleId == PyRange(n)
        call_type == Repeat(n, "germline")
        ds == Repeat(n, dataset)
        consent == Repeat(n, TRUE)
    IN  [i \in 1..n |-> [callsetId |-> callsetId[i], sampleId |-> sampleId[i],
                         call_type |-> call_type[i], dataset |-> ds[i],
                         consent |-> consent[i]]]

write_sample_table(smp, dataset) ==
    LET n == Len(smp)
        sampleId == PyRange(n)
    IN  [i \in 1..n |-> [sampleId |-> sampleId[i], sample_name |-> smp[i],
                         patientId |-> smp[i], dataset |-> dataset,
                         consent |-> TRUE]]

----------------------------------------------------------------------------
(* Genotype codec *)

RECURSIVE Join(_, _)
Join(strs, sep) ==
    IF strs = <<>> THEN ""
    ELSE IF Len(strs) = 1 THEN strs[1]
    ELSE strs[1] \o sep \o Join(Tail(strs), sep)

gt_string_flag_joined(genotype) ==
    LET phase_sym == IF genotype[Len(genotype)] THEN "|" ELSE "/"
    IN  Join([i \in 1..Len(genotype) |-> ToString(genotype[i])], phase_sym)

(* genotype[-1] is the phase flag, genotype[:-1] the allele indices *)
gt_string(genotype) ==
    LET phase_sym == IF genotype[Len(genotype)] THEN "|" ELSE "/"
        alleles == SubSeq(genotype, 1, Len(genotype) - 1)
    IN  Join([i \in 1..Len(alleles) |-> ToString(alleles[i])], phase_sym)

has_calls_nonzero(gt_types) ==
    SelectSeq(PyRange(Len(gt_types)), LAMBDA idx : gt_types[idx + 1] > 0)

(* np.where(record.gt_types % 2 == 1)[0]: 0-based indices, ascending *)
has_calls(gt_types) ==
    SelectSeq(PyRange(Len(gt_types)), LAMBDA idx : gt_types[idx + 1] % 2 = 1)

(* np.where(gts > 0)[0] *)
samples_present(gts) ==
    SelectSeq(PyRange(Len(gts)), LAMBDA idx : gts[idx + 1] > 0)

(* np.random.choice([0,1,3], nsamples, p=[p*p, 2*p*q, q*q]) with q = qn/AFDenom:
   the weights scaled by AFDenom^2.  A negative weight raises ValueError;
   otherwise any vector over the codes of positive weight may be drawn. *)
HWWeights_ref_for_alt(qn) ==
    LET pn == AFDenom - qn
    IN  [c \in {HOM_REF, HET, HOM_ALT} |->
            CASE c = HOM_REF -> qn * qn
              [] c = HET -> 2 * pn * qn
              [] c = HOM_ALT -> pn * pn]

HWWeights(qn) ==
    LET pn == AFDenom - qn
    IN  [c \in {HOM_REF, HET, HOM_ALT} |->
            CASE c = HOM_REF -> pn * pn
              [] c = HET -> 2 * pn * qn
              [] c = HOM_ALT -> qn * qn]

ChoiceRaises_never(qn) == FALSE

ChoiceRaises(qn) == \E c \in DOMAIN HWWeights(qn) : HWWeights(qn)[c] < 0

ChoiceOutcomes(qn, n) ==
    [1..n -> {c \in DOMAIN HWWeights(qn) : HWWeights(qn)[c] > 0}]

----------------------------------------------------------------------------
(* Chunked table writer *)

(* pq.ParquetWriter(path, schema) creates the file at path anew: whatever
   the file held is gone *)
opened(w, t) == IF w.writers[t] THEN w.files[t] ELSE <<>>

write_one_unchecked(m, tbls, w, t) ==
    [w EXCEPT !.writers[t] = TRUE, !.files[t] = Append(opened(w, t), tbls[t])]

write_one_reopens(m, tbls, w, t) ==
    IF ~w.ok THEN w
    ELSE IF \E i \in DOMAIN tbls[t] : ~get_schemas(m, t, tbls[t][i])
    THEN [w EXCEPT !.ok = FALSE]
    ELSE [w EXCEPT !.writers[t] = TRUE, !.files[t] = <<tbls[t]>>]

write_one_skips_empty(m, tbls, w, t) ==
    IF ~w.ok \/ tbls[t] = <<>> THEN w
    ELSE IF \E i \in DOMAIN tbls[t] : ~get_schemas(m, t, tbls[t][i])
    THEN [w EXCEPT !.ok = FALSE]
    ELSE [w EXCEPT !.writers[t] = TRUE,
                   !.files[t] = Append(opened(w, t), tbls[t])]

(* One pass of the loop in update_files over one table.  w carries the
   writers, the files and whether an earlier table raised. *)
write_one(m, tbls, w, t) ==
    IF ~w.ok THEN w
    ELSE IF \E i \in DOMAIN tbls[t] : ~get_schemas(m, t, tbls[t][i])
    THEN [w EXCEPT !.ok = FALSE]
    ELSE [w EXCEPT !.writers[t] = TRUE,
                   !.files[t] = Append(opened(w, t), tbls[t])]

RECURSIVE write_all(_, _, _, _)
write_all(m, tbls, w, names) ==
    IF names = <<>> THEN w
    ELSE write_all(m, tbls, write_one(m, tbls, w, Head(names)), Tail(names))

update_files(m, tbls, wr, fl) ==
    write_all(m, tbls, [writers |-> wr, files |-> fl, ok |-> TRUE], TableNames)

----------------------------------------------------------------------------
(* The drivers.  A run's state is a record, so that two runs over one
   input can be stepped side by side. *)

Run == [pc |-> pc, sample_map |-> sample_map, callsets |-> callsets,
        sampletable |-> sampletable, data_tables |-> data_tables,
        writers |-> writers, files |-> files, count |-> count, nrec |-> nrec,
        emitted |-> emitted]

InitRun == [pc |-> "start", sample_map |-> <<>>, callsets |-> <<>>,
            sampletable |-> <<>>, data_tables |-> empty_tables,
            writers |-> no_writers, files |-> no_files, count |-> 0, nrec |-> 0,
            emitted |-> empty_tables]

(* count += 1 *)
next_count_stuck(cnt) == cnt
next_count(cnt) == cnt + 1

(* data_tables["variants"]['vId'].append(count): the id is the counter of
   emitted variants, not the enumerate() index nr of the record *)
gnomad_vid_ordinal(cnt, nr) == nr
gnomad_vid(cnt, nr) == cnt

(* if n_present == 0: continue *)
no_calls_never(n_present) == FALSE
no_calls(n_present) == n_present = 0

(* if (vid+1) % chunksize == 0 *)
vcf_flush_due_on_index(vid, csize) == vid % csize = 0
vcf_flush_due(vid, csize) == (vid + 1) % csize = 0

(* if len(data_tables["variants"]["vId"]) % chunksize == 0 *)
gnomad_flush_due(tbls, csize) == Len(tbls["variants"]) % csize = 0

(* if len(data_tables["variants"]["vId"]): after the loop *)
final_flush_never(tbls) == FALSE
final_flush_due(tbls) == Len(tbls["variants"]) # 0

(* data_tables = empty_tables() after a flush inside the loop *)
after_flush_keep(tbls) == tbls
after_flush(tbls) == empty_tables

(* data_tables[t][col].append(...) for every column of one row *)
append_row(st, t, row) ==
    [st EXCEPT !.data_tables[t] = Append(@, row), !.emitted[t] = Append(@, row)]

append_rows(st, t, rows) ==
    [st EXCEPT !.data_tables[t] = @ \o rows, !.emitted[t] = @ \o rows]

(* update_files(data_tables, writers, prefix); data_tables = empty_tables() *)
flush(m, st) ==
    LET w == update_files(m, st.data_tables, st.writers, st.files)
    IN  IF w.ok
        THEN [st EXCEPT !.writers = w.writers, !.files = w.files,
                        !.data_tables = after_flush(st.data_tables)]
        ELSE [st EXCEPT !.writers = w.writers, !.files = w.files, !.pc = "failed"]

start_without_tables(m, smp, st) ==
    [st EXCEPT !.pc = "loop",
               !.sample_map = IF m = "vcf" THEN sample_to_sampleId(smp) ELSE <<>>,
               !.data_tables = empty_tables,
               !.writers = no_writers,
               !.count = 0]

(* Everything before the record loop.  vcf_to_parquet.tables builds the map
   and writes callsets, then samples; parquet_from_gnomad's __main__ writes
   samples, then callsets, and tables() keeps no map. *)
start(m, smp, st) ==
    [st EXCEPT !.pc = "loop",
               !.sample_map = IF m = "vcf" THEN sample_to_sampleId(smp) ELSE <<>>,
               !.callsets = <<write_callset_table(smp, DATASET)>>,
               !.sampletable = <<write_sample_table(smp, DATASET)>>,
               !.data_tables = empty_tables,
               !.writers = no_writers,
               !.count = 0]

vcf_gt_rows_next_vid(smp, smap, vid, record) ==
    LET hc == has_calls(record.gt_types)
    IN  [k \in 1..Len(hc) |->
            [vId |-> vid + 1,
             callsetId |-> smap[smp[hc[k] + 1]],
             genotype |-> gt_string(record.genotypes[hc[k] + 1])]]

(* The rows of lines 171-175 of vcf_to_parquet.py for one record *)
vcf_gt_rows(smp, smap, vid, record) ==
    LET hc == has_calls(record.gt_types)
    IN  [k \in 1..Len(hc) |->
            [vId |-> vid,
             callsetId |-> smap[smp[hc[k] + 1]],
             genotype |-> gt_string(record.genotypes[hc[k] + 1])]]

(* One iteration of the loop of vcf_to_parquet.tables.  record.INFO[...]
   raises KeyError when the record has no geneSymbol; the Variant row is
   then already in the buffer. *)
vcf_body(smp, csize, st, record) ==
    LET vid == st.nrec
        s1 == append_row([st EXCEPT !.nrec = @ + 1], "variants",
                  [vId |-> vid, chrom |-> record.CHROM, pos |-> record.POS,
                   ref |-> record.REF, alt |-> record.ALT[1]])
        s2 == IF Truthy(record.INFO.geneSymbol)
              THEN append_row(s1, "annotations",
                       [vId |-> vid, geneSymbol |-> record.INFO.geneSymbol])
              ELSE s1
        s3 == append_rows(s2, "gts", vcf_gt_rows(smp, st.sample_map, vid, record))
    IN  IF "geneSymbol" \notin DOMAIN record.INFO
        THEN [s1 EXCEPT !.pc = "failed"]
        ELSE IF vcf_flush_due(vid, csize) THEN flush("vcf", s3) ELSE s3

(* One iteration of the loop of parquet_from_gnomad.tables; gts is the
   vector np.random.choice returned (unused when the record is skipped
   before the draw or the draw raises). *)
gnomad_body(csize, st, record, gts) ==
    LET s0 == [st EXCEPT !.nrec = @ + 1]
        q == record.INFO.AF
        present == samples_present(gts)
        n_present == Len(present)
        cnt == next_count(st.count)
        vid == gnomad_vid(cnt, st.nrec)
        s1 == append_row([s0 EXCEPT !.count = cnt], "variants",
                  [vId |-> vid, chrom |-> record.CHROM, pos |-> record.POS,
                   ref |-> record.REF, alt |-> record.ALT[1]])
        s2 == append_rows(s1, "gts",
                  [k \in 1..n_present |->
                      [vId |-> vid, callsetId |-> present[k],
                       genotype |-> gts[present[k] + 1]]])
    IN  IF "AF" \notin DOMAIN record.INFO \/ q = 0 THEN s0
        ELSE IF ChoiceRaises(q) THEN [s0 EXCEPT !.pc = "failed"]
        ELSE IF no_calls(n_present) THEN s0
        ELSE IF gnomad_flush_due(s2.data_tables, csize)
             THEN flush("gnomad", s2) ELSE s2

(* After the loop: flush what the buffers still hold *)
finish(m, st) ==
    IF final_flush_due(st.data_tables)
    THEN LET s == flush(m, st)
         IN  IF s.pc = "failed" THEN s
             ELSE [s EXCEPT !.pc = "done", !.data_tables = st.data_tables]
    ELSE [st EXCEPT !.pc = "done"]

----------------------------------------------------------------------------
(* The run as a state machine *)

Install(st) ==
    /\ pc' = st.pc
    /\ sample_map' = st.sample_map
    /\ callsets' = st.callsets
    /\ sampletable' = st.sampletable
    /\ data_tables' = st.data_tables
    /\ writers' = st.writers
    /\ files' = st.files
    /\ count' = st.count
    /\ nrec' = st.nrec
    /\ emitted' = st.emitted

Init ==
    /\ mode \in Modes
    /\ \E n \in 0..MaxSamples :
          samples = IF mode = "vcf" THEN VcfSamples(n) ELSE GnomadSamples(n)
    /\ chunksize \in 1..MaxChunk
    /\ stream = <<>>
    /\ pc = "start"
    /\ sample_map = <<>>
    /\ callsets = <<>>
    /\ sampletable = <<>>
    /\ data_tables = empty_tables
    /\ writers = no_writers
    /\ files = no_files
    /\ count = 0
    /\ nrec = 0
    /\ emitted = empty_tables
    /\ ref = InitRun
    /\ gt_in = <<0, FALSE>>
    /\ gt_out = <<>>

(* Is there room for one more record within the bounds? *)
MoreInput ==
    /\ Len(stream) < MaxRecords
    /\ (Len(stream) + 1) * Len(samples) <= MaxCells

(* The gts a gnomad record may be given by the sampler *)
Draws(record, n) ==
    IF "AF" \in DOMAIN record.INFO /\ record.INFO.AF # 0 /\ ~ChoiceRaises(record.INFO.AF)
    THEN ChoiceOutcomes(record.INFO.AF, n)
    ELSE {<<>>}

Start ==
    /\ pc = "start"
    /\ Install(start(mode, samples, Run))
    /\ UNCHANGED <<mode, samples, chunksize, stream, ref, gt_in, gt_out>>

VcfRecord ==
    /\ pc = "loop" /\ mode = "vcf" /\ MoreInput
    /\ \E record \in VcfRecords(Len(samples)) :
          /\ stream' = Append(stream, record)
          /\ Install(vcf_body(samples, chunksize, Run, record))
    /\ UNCHANGED <<mode, samples, chunksize, ref, gt_in, gt_out>>

GnomadRecord ==
    /\ pc = "loop" /\ mode = "gnomad" /\ MoreInput
    /\ \E record \in GnomadRecords :
          \E gts \in Draws(record, Len(samples)) :
             /\ stream' = Append(stream, [record EXCEPT !.gts = gts])
             /\ Install(gnomad_body(chunksize, Run, record, gts))
    /\ UNCHANGED <<mode, samples, chunksize, ref, gt_in, gt_out>>

EndOfStream ==
    /\ pc = "loop"
    /\ Install(finish(mode, Run))
    /\ UNCHANGED <<mode, samples, chunksize, stream, ref, gt_in, gt_out>>

Next == Start \/ VcfRecord \/ GnomadRecord \/ EndOfStream

Spec == Init /\ [][Next]_vars

----------------------------------------------------------------------------
(* Two runs of one driver over one input (and, for the synthetic driver,
   the same drawn genotypes): the run above with the chosen chunk size, and
   ref with chunk size 1. *)

(* A run that has failed has ended: it takes no part in later steps *)
resume(st, nxt) == IF st.pc = "loop" THEN nxt ELSE st

PairStart ==
    /\ pc = "start"
    /\ Install(start(mode, samples, Run))
    /\ ref' = start(mode, samples, ref)
    /\ UNCHANGED <<mode, samples, chunksize, stream, gt_in, gt_out>>

PairVcfRecord ==
    /\ pc = "loop" /\ mode = "vcf" /\ MoreInput
    /\ \E record \in VcfRecords(Len(samples)) :
          /\ stream' = Append(stream, record)
          /\ Install(vcf_body(samples, chunksize, Run, record))
          /\ ref' = resume(ref, vcf_body(samples, 1, ref, record))
    /\ UNCHANGED <<mode, samples, chunksize, gt_in, gt_out>>

PairGnomadRecord ==
    /\ pc = "loop" /\ mode = "gnomad" /\ MoreInput
    /\ \E record \in GnomadRecords :
          \E gts \in Draws(record, Len(samples)) :
             /\ stream' = Append(stream, [record EXCEPT !.gts = gts])
             /\ Install(gnomad_body(chunksize, Run, record, gts))
             /\ ref' = resume(ref, gnomad_body(1, ref, record, gts))
    /\ UNCHANGED <<mode, samples, chunksize, gt_in, gt_out>>

PairEndOfStream ==
    /\ pc = "loop"
    /\ Install(finish(mode, Run))
    /\ ref' = resume(ref, finish(mode, ref))
    /\ UNCHANGED <<mode, samples, chunksize, stream, gt_in, gt_out>>

PairNext == PairStart \/ PairVcfRecord \/ PairGnomadRecord \/ PairEndOfStream

SpecChunk == Init /\ [][PairNext]_vars

----------------------------------------------------------------------------
(* The synthetic driver run twice with one configuration: the same records,
   sample count and chunk size.  parquet_from_gnomad has no seed argument
   and never seeds numpy's generator, so the draws of the second run are
   not tied to those of the first. *)
MaxRerun == 2

InitSeed == Init /\ mode = "gnomad"

RerunGnomadRecord ==
    /\ pc = "loop" /\ mode = "gnomad" /\ MoreInput
    /\ Len(stream) < MaxRerun
    /\ \E record \in GnomadRecords :
          \E gts \in Draws(record, Len(samples)) :
             \E gts2 \in Draws(record, Len(samples)) :
                /\ stream' = Append(stream, [record EXCEPT !.gts = gts])
                /\ Install(gnomad_body(chunksize, Run, record, gts))
                /\ ref' = resume(ref, gnomad_body(chunksize, ref, record, gts2))
    /\ UNCHANGED <<mode, samples, chunksize, gt_in, gt_out>>

SeedNext == PairStart \/ RerunGnomadRecord \/ PairEndOfStream

SpecSeed == InitSeed /\ [][SeedNext]_vars

----------------------------------------------------------------------------
(* The codec on its own, next to a run of the real driver over three
   samples: gt_string is applied to a raw genotype drawn from RawGenotypes. *)

InitGt ==
    /\ mode = "vcf"
    /\ samples = VcfSamples(3)
    /\ chunksize \in 1..MaxChunk
    /\ stream = <<>>
    /\ pc = "start"
    /\ sample_map = <<>>
    /\ callsets = <<>>
    /\ sampletable = <<>>
    /\ data_tables = empty_tables
    /\ writers = no_writers
    /\ files = no_files
    /\ count = 0
    /\ nrec = 0
    /\ emitted = empty_tables
    /\ ref = InitRun
    /\ gt_in \in RawGenotypes
    /\ gt_out = <<>>

Encode ==
    /\ gt_out = <<>>
    /\ gt_out' = <<gt_string(gt_in)>>
    /\ UNCHANGED <<mode, samples, chunksize, stream, pc, sample_map, callsets,
                   sampletable, data_tables, writers, files, count, nrec,
                   emitted, ref, gt_in>>

NextGt == Encode \/ Start \/ VcfRecord \/ EndOfStream

SpecGt == InitGt /\ [][NextGt]_vars

----------------------------------------------------------------------------
(* Properties *)

(* The calls of one consumed record: gt_types of a real record, the drawn
   gts of a synthetic one.  A call is present when it is heterozygous or
   homozygous-alternate. *)
CallsOf(entry) == IF mode = "vcf" THEN entry.gt_types ELSE entry.gts

PresentSamples(entry) ==
    {i \in DOMAIN CallsOf(entry) : CallsOf(entry)[i] \in {HET, HOM_ALT}}

HasPresentCall(entry) == PresentSamples(entry) # {}

RecordsWithCalls == {i \in DOMAIN stream : HasPresentCall(stream[i])}

VariantIds == [i \in DOMAIN emitted["variants"] |-> emitted["variants"][i].vId]

(* C1, as claimed: in both drivers the number of Variant rows emitted over a
   whole run equals the number of input records with at least one present
   call. *)
C1_RowsEqualRecordsWithCalls ==
    pc = "done" => Len(emitted["variants"]) = Cardinality(RecordsWithCalls)

(* C1, amended: the synthetic driver emits one Variant row per input record
   with at least one present call and none for the others; the real driver
   emits one Variant row per input record, present call or not. *)
C1_RowsPerDriver ==
    /\ mode = "gnomad" => Len(emitted["variants"]) = Cardinality(RecordsWithCalls)
    /\ mode = "vcf" => Len(emitted["variants"]) = Len(stream)

C1_Witness ==
    /\ pc = "done"
    /\ Len(stream) = MaxRecords
    /\ Cardinality(RecordsWithCalls) = 1
    /\ ~HasPresentCall(stream[2])

(* C2: the variantIds, in emission order, are strictly increasing. *)
C2_StrictlyIncreasing ==
    \A i, j \in DOMAIN VariantIds : i < j => VariantIds[i] < VariantIds[j]

C2_Witness ==
    /\ pc = "done"
    /\ Len(VariantIds) = MaxRecords
    /\ Len(files["variants"]) >= 2

(* C3: the variantIds of the emitted rows are consecutive integers, whatever
   records were skipped in between. *)
C3_Consecutive ==
    \A i \in 1..(Len(VariantIds) - 1) : VariantIds[i + 1] = VariantIds[i] + 1

C3_Witness ==
    /\ mode = "gnomad"
    /\ pc = "done"
    /\ Len(stream) = 3
    /\ HasPresentCall(stream[1])
    /\ ~HasPresentCall(stream[2])
    /\ HasPresentCall(stream[3])
    /\ Len(VariantIds) = 2

(* C4: a run whose chunk size equals the total number of emitted variants
   leaves, in each of the three tables, the same rows in the same order as
   the run with chunk size 1. *)
C4_ChunkSizeInvisible ==
    (pc = "done" /\ ref.pc = "done" /\ chunksize = Len(emitted["variants"])) =>
        \A t \in Tables : Flatten(files[t]) = Flatten(ref.files[t])

C4_Witness ==
    /\ pc = "done" /\ ref.pc = "done"
    /\ chunksize = Len(emitted["variants"])
    /\ chunksize >= 2
    /\ Len(files["variants"]) = 1
    /\ Len(ref.files["variants"]) = chunksize
    /\ Flatten(files["gts"]) # <<>>

(* C5: when the stream has ended, each table's artifact holds exactly the
   rows decoded for the table, once each, in emission order. *)
C5_ArtifactsHoldEmittedRows ==
    pc = "done" => \A t \in Tables : Flatten(files[t]) = emitted[t]

C5_Witness ==
    /\ pc = "done"
    /\ Len(files["variants"]) = 2
    /\ Len(files["variants"][2]) < chunksize
    /\ Len(emitted["gts"]) >= 2
    /\ emitted["annotations"] # <<>>

(* C6: when the stream has ended, every table has an artifact, and a table
   that received no rows has an artifact of zero rows. *)
C6_EveryTableHasArtifact ==
    pc = "done" =>
        /\ callsets # <<>>
        /\ sampletable # <<>>
        /\ \A t \in Tables :
              /\ writers[t]
              /\ emitted[t] = <<>> => Flatten(files[t]) = <<>>

(* C7: the map built by sample_to_sampleId is a bijection from the n sample
   names onto 0..n-1, and it agrees with the id columns written to the
   callsets and samples tables. *)
C7_SampleMapBijection ==
    (mode = "vcf" /\ pc # "start") =>
        LET n == Len(samples)
            ids == 0..(n - 1)
        IN  /\ DOMAIN sample_map = Range(samples)
            /\ \A a, b \in DOMAIN sample_map :
                  a # b => sample_map[a] # sample_map[b]
            /\ {sample_map[a] : a \in DOMAIN sample_map} = ids
            /\ {r.callsetId : r \in Range(callsets[1])} = ids
            /\ {r.sampleId : r \in Range(sampletable[1])} = ids
            /\ \A r \in Range(sampletable[1]) :
                  sample_map[r.sample_name] = r.sampleId
            /\ \A r \in Range(callsets[1]) : r.callsetId = r.sampleId

C7_Witness ==
    /\ mode = "vcf" /\ pc = "loop"
    /\ Len(samples) = MaxSamples
    /\ sample_map[samples[1]] = 0
    /\ sample_map[samples[MaxSamples]] = MaxSamples - 1

(* C8: every callsetId in the genotype-call table is in 0..n-1 and is a
   callsetId of the callsets table and a sampleId of the samples table. *)
GtRows == Range(emitted["gts"]) \cup Range(Flatten(files["gts"]))

C8_CallsetIdsResolve ==
    \A g \in GtRows :
        /\ g.callsetId \in 0..(Len(samples) - 1)
        /\ callsets # <<>> /\ sampletable # <<>>
        /\ \E r \in Range(callsets[1]) : r.callsetId = g.callsetId
        /\ \E r \in Range(sampletable[1]) : r.sampleId = g.callsetId

C8_Witness ==
    /\ mode = "gnomad"
    /\ Len(samples) >= 2
    /\ \E g \in Range(Flatten(files["gts"])) : g.callsetId = Len(samples) - 1
    /\ \E g \in Range(Flatten(files["gts"])) : g.callsetId = 0

(* C9: a GenotypeCall row exists for a (variant, sample) pair if and only
   if that sample's call is heterozygous or homozygous-alternate.  The k-th
   Variant row of the artifact comes from the k-th record that emitted one:
   every record for the real driver, the records with a present call for
   the synthetic one.  The variants are those of the chunks whose
   genotype-call batch has been written: a flush that fails after the
   variants batch leaves that one batch without its calls. *)
EmittingRecords == IF mode = "vcf" THEN DOMAIN stream ELSE RecordsWithCalls

SourceOf(k) ==
    stream[CHOOSE i \in EmittingRecords :
               Cardinality({j \in EmittingRecords : j <= i}) = k]

C9_RowIffPresent ==
    LET V == Flatten(SubSeq(files["variants"], 1, Len(files["gts"])))
        G == Flatten(files["gts"])
    IN  /\ \A k \in DOMAIN V : \A s \in 1..Len(samples) :
              Cardinality({j \in DOMAIN G : /\ G[j].vId = V[k].vId
                                            /\ G[j].callsetId = s - 1})
                  = IF CallsOf(SourceOf(k))[s] \in {HET, HOM_ALT} THEN 1 ELSE 0
        /\ \A j \in DOMAIN G :
              /\ \E k \in DOMAIN V : V[k].vId = G[j].vId
              /\ G[j].callsetId \in 0..(Len(samples) - 1)

C9_Witness ==
    /\ mode = "vcf"
    /\ Len(samples) = 3
    /\ Len(Flatten(files["variants"])) = 1
    /\ stream[1].gt_types = <<UNKNOWN, HOM_ALT, HOM_REF>>
    /\ Len(Flatten(files["gts"])) = 1

(* C10: gt_string returns the allele indices, in order and without the
   phase flag, joined by "/" when the flag is false and by "|" when it is
   true; and the record with alternates [T, G] and unphased genotypes
   (0,0), (0,1), (1,1) yields one Variant row with alternate T and the two
   GenotypeCall rows of samples 1 and 2, "0/1" and "1/1". *)
Token(g, i) == ToString(g[i])

RECURSIVE Offset(_, _)
Offset(g, i) == IF i = 1 THEN 1 ELSE Offset(g, i - 1) + Len(Token(g, i - 1)) + 1

JoinedAlleles(g, out) ==
    LET k == Len(g) - 1
        sep == IF g[Len(g)] THEN "|" ELSE "/"
    IN  /\ Len(out) = Offset(g, k) + Len(Token(g, k)) - 1
        /\ \A i \in 1..k :
              SubSeq(out, Offset(g, i), Offset(g, i) + Len(Token(g, i)) - 1)
                  = Token(g, i)
        /\ \A i \in 2..k : SubSeq(out, Offset(g, i) - 1, Offset(g, i) - 1) = sep

ExampleRun ==
    /\ pc = "done"
    /\ Len(stream) = 1
    /\ stream[1].ALT = <<"T", "G">>
    /\ stream[1].genotypes = <<<<0, 0, FALSE>>, <<0, 1, FALSE>>, <<1, 1, FALSE>>>>

C10_GtString ==
    /\ gt_out # <<>> => JoinedAlleles(gt_in, gt_out[1])
    /\ ExampleRun =>
          /\ Len(Flatten(files["variants"])) = 1
          /\ Flatten(files["variants"])[1].alt = "T"
          /\ Flatten(files["gts"]) =
                <<[vId |-> 0, callsetId |-> 1, genotype |-> "0/1"],
                  [vId |-> 0, callsetId |-> 2, genotype |-> "1/1"]>>

C10_Witness ==
    /\ ExampleRun
    /\ gt_in = <<-1, 1, TRUE>>
    /\ gt_out = <<"-1|1">>

(* C11: for every emitted variant, in both drivers, a record that carries a
   gene symbol has exactly one Annotation row, with the variant's id, and a
   record that carries none has no Annotation row; no Annotation row is
   without its variant. *)
CarriesGene(entry) ==
    /\ "geneSymbol" \in DOMAIN entry.INFO
    /\ Truthy(entry.INFO.geneSymbol)

C11_OneAnnotationPerGene ==
    LET V == emitted["variants"]
        A == emitted["annotations"]
    IN  /\ \A k \in DOMAIN V :
              Cardinality({j \in DOMAIN A : A[j].vId = V[k].vId})
                  = IF CarriesGene(SourceOf(k)) THEN 1 ELSE 0
        /\ \A j \in DOMAIN A : \E k \in DOMAIN V : V[k].vId = A[j].vId

(* C12: in the synthetic driver with n samples, a record with allele
   frequency q = 0 is skipped entirely (no Variant row, no GenotypeCall row,
   no identifier consumed, nothing written), and a record with q = 1 adds
   exactly n GenotypeCall rows, one per sample in sample order, all with the
   homozygous-alternate code and the id of the Variant row added with them. *)
NewRows(t) == SubSeq(emitted[t]', Len(emitted[t]) + 1, Len(emitted[t]'))

C12_Step ==
    (mode = "gnomad" /\ Len(stream') = Len(stream) + 1) =>
        LET record == stream'[Len(stream')]
            n == Len(samples)
            hasAF == "AF" \in DOMAIN record.INFO
        IN  /\ (hasAF /\ record.INFO.AF = 0) =>
                  /\ emitted' = emitted
                  /\ data_tables' = data_tables
                  /\ files' = files
                  /\ count' = count
                  /\ pc' = "loop"
            /\ (hasAF /\ record.INFO.AF = AFDenom) =>
                  /\ Len(NewRows("gts")) = n
                  /\ Len(NewRows("variants")) = IF n = 0 THEN 0 ELSE 1
                  /\ \A k \in 1..n :
                        NewRows("gts")[k] =
                            [vId |-> NewRows("variants")[1].vId,
                             callsetId |-> k - 1, genotype |-> HOM_ALT]

C12_HardyWeinbergEdges == [][C12_Step]_vars

C12_Witness ==
    /\ mode = "gnomad" /\ pc = "done"
    /\ Len(samples) = 2
    /\ Len(stream) = 2
    /\ \A i \in 1..2 : "AF" \in DOMAIN stream[i].INFO
    /\ stream[1].INFO.AF = 0
    /\ stream[2].INFO.AF = AFDenom
    /\ Flatten(files["gts"]) =
          <<[vId |-> 1, callsetId |-> 0, genotype |-> HOM_ALT],
            [vId |-> 1, callsetId |-> 1, genotype |-> HOM_ALT]>>

(* C13: in the synthetic driver a record whose allele frequency lies
   outside [0,1] makes the run fail, with no Variant or GenotypeCall row
   buffered or written for it and no identifier consumed; a failed run
   takes no further step. *)
OutOfRange(record) ==
    /\ "AF" \in DOMAIN record.INFO
    /\ (record.INFO.AF < 0 \/ record.INFO.AF > AFDenom)

C13_Step ==
    /\ pc # "failed"
    /\ (mode = "gnomad" /\ Len(stream') = Len(stream) + 1
            /\ OutOfRange(stream'[Len(stream')])) =>
          /\ pc' = "failed"
          /\ stream'[Len(stream')].gts = <<>>
          /\ emitted' = emitted
          /\ data_tables' = data_tables
          /\ files' = files
          /\ writers' = writers
          /\ count' = count

C13_OutOfRangeIsFatal == [][C13_Step]_vars

C13_Witness ==
    /\ mode = "gnomad" /\ pc = "failed"
    /\ Len(samples) = 2
    /\ Len(stream) = 2
    /\ OutOfRange(stream[2])
    /\ stream[2].INFO.AF > AFDenom
    /\ Len(emitted["variants"]) = 1
    /\ Len(Flatten(files["gts"])) = 2

(* C14: when the conversion of a table's buffered rows to its schema fails
   during a flush, the run fails and that table's artifact is left as the
   earlier flushes made it, as are the artifacts of the tables that follow
   it in the flush; no row that does not fit its table's schema is ever in
   an artifact, and a failed run takes no further step.  In the real
   driver a run fails either by the KeyError of a record without
   geneSymbol or in a flush. *)
Conforms(t, rows) == \A i \in DOMAIN rows : get_schemas(mode, t, rows[i])

FlushFailed ==
    /\ mode = "vcf" /\ pc' = "failed"
    /\ Len(stream') > Len(stream) =>
          "geneSymbol" \in DOMAIN stream'[Len(stream')].INFO

C14_Step ==
    /\ pc # "failed"
    /\ \A t \in Tables : Conforms(t, Flatten(files[t]'))
    /\ FlushFailed =>
          \E k \in DOMAIN TableNames :
             /\ ~Conforms(TableNames[k], data_tables[TableNames[k]]')
             /\ \A j \in 1..(k - 1) :
                   Conforms(TableNames[j], data_tables[TableNames[j]]')
             /\ \A j \in k..Len(TableNames) :
                   files[TableNames[j]]' = files[TableNames[j]]

C14_FailedFlushAppendsNothing == [][C14_Step]_vars

C14_Witness ==
    /\ mode = "vcf" /\ pc = "failed"
    /\ chunksize = 1
    /\ Len(stream) = 2
    /\ "geneSymbol" \in DOMAIN stream[2].INFO
    /\ stream[2].INFO.geneSymbol = PyTrue
    /\ Len(files["annotations"]) = 1
    /\ Len(files["annotations"][1]) = 1
    /\ Len(files["variants"]) = 2
    /\ data_tables["annotations"] # <<>>

(* C15: the samples and callsets tables are written once, from the whole
   ordered sample list, before the first record is decoded and before any
   chunk is flushed, and no later step changes them. *)
BuiltFromSamples(cs, st) ==
    /\ Len(cs) = 1 /\ Len(st) = 1
    /\ Len(cs[1]) = Len(samples) /\ Len(st[1]) = Len(samples)
    /\ \A i \in 1..Len(samples) :
          /\ cs[1][i].callsetId = i - 1
          /\ st[1][i].sampleId = i - 1
          /\ st[1][i].sample_name = samples[i]

C15_Step ==
    /\ pc = "start" =>
          /\ callsets = <<>> /\ sampletable = <<>>
          /\ stream = <<>> /\ files = no_files /\ emitted = empty_tables
          /\ stream' = stream /\ files' = files /\ emitted' = emitted
    /\ pc' # "start" => BuiltFromSamples(callsets', sampletable')
    /\ pc # "start" => (callsets' = callsets /\ sampletable' = sampletable)

C15_MetadataTablesFirst == [][C15_Step]_vars

C15_Witness ==
    /\ pc = "done"
    /\ Len(samples) = 2
    /\ Len(stream) = 2
    /\ Len(files["variants"]) = 2
    /\ BuiltFromSamples(callsets, sampletable)

(* C16: two runs of the synthetic driver over the same input with the same
   configuration (seed, sample count, chunk size) leave identical variants
   and genotype-call tables. *)
C16_SameSeedSameTables ==
    (pc = "done" /\ ref.pc = "done") =>
        /\ Flatten(files["variants"]) = Flatten(ref.files["variants"])
        /\ Flatten(files["gts"]) = Flatten(ref.files["gts"])

(* C17: inside the loop a flush happens exactly when the Variant buffer has
   reached chunksize rows, and it empties every buffer: after a record has
   been processed the Variant buffer holds fewer than chunksize rows, and
   every batch of the variants artifact except the one written at the end
   of the stream holds exactly chunksize rows. *)
VariantsAdded == Len(emitted["variants"]') - Len(emitted["variants"])

C17_Step ==
    LET B == files["variants"]'
    IN  /\ pc' \in {"loop", "done"} =>
              Len(data_tables["variants"]') < chunksize
        /\ pc' = "loop" => \A i \in DOMAIN B : Len(B[i]) = chunksize
        /\ pc' = "done" =>
              /\ \A i \in 1..(Len(B) - 1) : Len(B[i]) = chunksize
              /\ \A i \in DOMAIN B : Len(B[i]) \in 1..chunksize
        /\ (pc = "loop" /\ pc' = "loop") =>
              /\ files' # files <=>
                    Len(data_tables["variants"]) + VariantsAdded = chunksize
              /\ files' # files =>
                    /\ data_tables' = empty_tables
                    /\ \A t \in Tables : Len(files[t]') = Len(files[t]) + 1

C17_FlushAtChunkSize == [][C17_Step]_vars

C17_Witness ==
    /\ pc = "done"
    /\ chunksize = 2
    /\ Len(files["variants"]) = 2
    /\ Len(files["variants"][1]) = 2
    /\ Len(files["variants"][2]) = 1
    /\ Len(files["gts"][1]) >= 1

(* C18: the writer of a table is created at most once, by the first flush,
   and is kept from then on: a table has a writer exactly when a batch has
   been written to it, a writer once created stays, and every flush
   appends one batch of rows that fit the table's schema behind the batches
   already in the artifact, none of which is lost or changed. *)
IsPrefix(a, b) == Len(a) <= Len(b) /\ SubSeq(b, 1, Len(a)) = a

C18_Step ==
    \A t \in Tables :
        /\ writers[t] => writers[t]'
        /\ writers[t]' <=> files[t]' # <<>>
        /\ IsPrefix(files[t], files[t]')
        /\ Len(files[t]') <= Len(files[t]) + 1
        /\ files[t]' # files[t] =>
              Conforms(t, files[t]'[Len(files[t]')])

C18_OneWriterPerTable == [][C18_Step]_vars

C18_Witness ==
    /\ pc = "done"
    /\ \A t \in Tables : writers[t] /\ Len(files[t]) = 3
    /\ Len(Flatten(files["annotations"])) = 1

(* C19: in every flush, each vId of the genotype-call batch and of the
   annotations batch is the vId of a Variant row of the variants batch of
   the same flush, so the rows of a variant are never in another chunk than
   its Variant row and never name a variant that was not emitted.  The
   i-th batch of each artifact is the one of the i-th flush. *)
BatchVIds(t, i) == {files[t][i][k].vId : k \in DOMAIN files[t][i]}

C19_ChunkReferentialIntegrity ==
    \A t \in {"gts", "annotations"} :
        \A i \in DOMAIN files[t] :
            /\ i \in DOMAIN files["variants"]
            /\ BatchVIds(t, i) \subseteq BatchVIds("variants", i)
            /\ \A j \in DOMAIN files["variants"] :
                  j # i => BatchVIds(t, i) \cap BatchVIds("variants", j) = {}

C19_Witness ==
    /\ pc = "done"
    /\ chunksize = 2
    /\ Len(files["variants"]) = 2
    /\ Cardinality(BatchVIds("gts", 1)) = 2
    /\ BatchVIds("gts", 2) # {}
    /\ BatchVIds("annotations", 2) # {}

(* C20: a flush that succeeds appends exactly one batch, which may have no
   rows, to each of variants, annotations and gts; as long as no flush has
   failed the three artifacts hold the same number of batches and the three
   writers exist together or not at all. *)
C20_Step ==
    /\ (pc' # "failed" /\ files' # files) =>
          \A t \in Tables : Len(files[t]') = Len(files[t]) + 1
    /\ pc' # "failed" =>
          \A t, u \in Tables :
             /\ Len(files[t]') = Len(files[u]')
             /\ writers[t]' = writers[u]'

C20_OneBatchPerTablePerFlush == [][C20_Step]_vars

C20_Witness ==
    /\ pc = "done"
    /\ \A t \in Tables : writers[t] /\ Len(files[t]) = 2
    /\ files["annotations"][1] = <<>>
    /\ files["gts"][2] = <<>>
    /\ files["gts"][1] # <<>>

====
